---- MODULE Spec2Model ----
(***************************************************************************)
(* Contract Generator: the Astro actions of src/actions/index.ts over the  *)
(* three Astro DB tables ContractTemplates, Contracts and ContractClauses. *)
(*                                                                         *)
(* An action input is a function whose DOMAIN is the set of keys present   *)
(* in the request: an absent key is JavaScript's undefined.  A table is    *)
(* the set of its rows (ContractClauses, whose primary key may be NULL, is *)
(* the sequence of its rows in insertion order).                           *)
(***************************************************************************)
EXTENDS Integers, Sequences, FiniteSets, TLC

VARIABLES
    Templates,   \* rows of ContractTemplates
    Contracts,   \* rows of Contracts
    Clauses,     \* rows of ContractClauses, in insertion order
    clock,       \* the wall clock new Date() reads
    store,       \* the constraints the database enforces: a subset of StoreRules
    reqs         \* the requests in flight (used by the interleaved specification)

vars == <<Templates, Contracts, Clauses, clock, store, reqs>>

----------------------------------------------------------------------------
(* Bounds of the model. *)

MaxTime == 1

MaxClauses == 2

(* Values. *)

Null == "<null>"

NoUser == "<anonymous>"

NoOut == "<none>"

Users == {"u1", "u2"}

Callers == Users \cup {NoUser}

(* What the database may enforce besides the uniqueness of a primary key:  *)
(* "fk", the REFERENCES of the schema (SQLite's foreign_keys pragma).  A   *)
(* text primary key carries no NOT NULL: SQLite lets it be NULL.           *)
StoreRules == {"fk"}

----------------------------------------------------------------------------
(* Inputs: functions over the keys present. *)

Opt(k, S) == {<<>>} \cup {k :> v : v \in S}

Req(k, S) == {k :> v : v \in S}

Join(A, B) == {a @@ b : a \in A, b \in B}

Has(in, k) == k \in DOMAIN in

(* input.k as a column value: an undefined value is stored as NULL *)
Col(in, k) == IF Has(in, k) THEN in[k] ELSE Null

(* JavaScript truthiness of a string-or-null value *)
Truthy(v) == v # Null /\ v # ""

(* const { id, ...rest } = input: the input without the keys named *)
Rest(in, keys) == [k \in (DOMAIN in) \ keys |-> in[k]]

(* the input's entries among the keys named *)
Only(in, keys) == [k \in (DOMAIN in) \cap keys |-> in[k]]

(* .set({...updateData, ...}): the row with the given columns overwritten *)
Merge(row, data) == [k \in DOMAIN row |-> IF k \in DOMAIN data THEN data[k] ELSE row[k]]

(* What a request ends with: the response (code, out), the tables it      *)
(* leaves, and the statements it sent to the database, in order.          *)
Outcome(code, out, T, C, L, stmts) ==
    [code |-> code, out |-> out, T |-> T, C |-> C, L |-> L, stmts |-> stmts]

(* A failure that leaves the tables as they are *)
Fail(code, stmts) == Outcome(code, NoOut, Templates, Contracts, Clauses, stmts)

(* requireUser without its check *)
requireUserAbsent(user) == TRUE

(* requireUser: whether context.locals.user is there *)
requireUser(user) == user # NoUser

(* new Date(): time does not go back between two requests *)
Now == {t \in clock .. clock + 1 : t <= MaxTime}

----------------------------------------------------------------------------
(* createTemplate *)

createTemplateSchema(in) ==
    /\ Has(in, "name") /\ in.name # ""
    /\ Has(in, "body") /\ in.body # ""

(* crypto.randomUUID() gives a UUID no row carries yet *)
FreshIds(uuids, rows) == {id \in uuids : \A r \in rows : r.id # id}

TemplateOwnerFor(in, user) ==
    IF Has(in, "isSystem") /\ in.isSystem THEN Null ELSE user

createTemplate(user, in, now, uuids) ==
    IF ~createTemplateSchema(in) THEN {Fail("BAD_REQUEST", <<>>)}
    ELSE IF ~requireUser(user) THEN {Fail("UNAUTHORIZED", <<>>)}
    ELSE {LET template == [id |-> id,
                           userId |-> TemplateOwnerFor(in, user),
                           name |-> in.name,
                           description |-> Col(in, "description"),
                           category |-> Col(in, "category"),
                           baseLanguage |-> Col(in, "baseLanguage"),
                           body |-> in.body,
                           isSystem |-> IF Has(in, "isSystem") THEN in.isSystem ELSE FALSE,
                           createdAt |-> now,
                           updatedAt |-> now]
          IN  IF \E t \in Templates : t.id = id
              THEN Fail("STORE_ERROR", <<"insert ContractTemplates">>)
              ELSE Outcome("OK", template, Templates \cup {template}, Contracts, Clauses,
                           <<"insert ContractTemplates">>)
          : id \in IF Has(in, "id") THEN {in.id} ELSE FreshIds(uuids, Templates)}

----------------------------------------------------------------------------
(* updateTemplate *)

updateTemplateSchema(in) ==
    /\ Has(in, "id")
    /\ Has(in, "name") => in.name # ""

(* the template guard without its ownership half *)
TemplateDeniedMissingOnly(found, user) == found = {}

(* !existing || (existing.userId && existing.userId !== user.id), for the  *)
(* rows the lookup by id returned (none or one)                            *)
TemplateDenied(found, user) ==
    \/ found = {}
    \/ \E t \in found : Truthy(t.userId) /\ t.userId # user

(* updateData that always carries a timestamp, so that it is never empty *)
UpdateDataStamped(rest) == rest @@ ("updatedAt" :> 0)

(* updateData: the entries of rest whose value is not undefined, that is  *)
(* the keys present                                                       *)
UpdateData(rest) == [k \in DOMAIN rest |-> rest[k]]

updateTemplate(user, in, now) ==
    IF ~updateTemplateSchema(in) THEN {Fail("BAD_REQUEST", <<>>)}
    ELSE IF ~requireUser(user) THEN {Fail("UNAUTHORIZED", <<>>)}
    ELSE LET found == {t \in Templates : t.id = in.id}
             updateData == UpdateData(Rest(in, {"id"}))
         IN  IF TemplateDenied(found, user)
             THEN {Fail("NOT_FOUND", <<"select ContractTemplates">>)}
             ELSE IF DOMAIN updateData = {}
             THEN {Outcome("OK", existing, Templates, Contracts, Clauses,
                           <<"select ContractTemplates">>) : existing \in found}
             ELSE {LET template == Merge(existing, updateData @@ ("updatedAt" :> now))
                   IN  Outcome("OK", template, (Templates \ {existing}) \cup {template},
                               Contracts, Clauses,
                               <<"select ContractTemplates", "update ContractTemplates">>)
                   : existing \in found}

----------------------------------------------------------------------------
(* listTemplates *)

(* listTemplates without its filter *)
AllTemplatesVisible(user) == Templates

VisibleTemplates(user) == {t \in Templates : t.userId = Null \/ t.userId = user}

listTemplates(user) ==
    IF ~requireUser(user) THEN {Fail("UNAUTHORIZED", <<>>)}
    ELSE {Outcome("OK", VisibleTemplates(user), Templates, Contracts, Clauses,
                  <<"select ContractTemplates">>)}

----------------------------------------------------------------------------
(* z.coerce.date(): new Date(value) of the raw value, refused when it is   *)
(* an Invalid Date.  Two spellings of one day coerce to the same Date.     *)

InvalidDate == "<invalid date>"

CoerceDate(raw) ==
    CASE raw = "2024-05-01"  -> "2024-05-01T00:00:00.000Z"
      [] raw = "2024-05-01T00:00:00Z" -> "2024-05-01T00:00:00.000Z"
      [] raw = "2025-01-01"  -> "2025-01-01T00:00:00.000Z"
      [] OTHER -> InvalidDate

DateKeys == {"effectiveDate", "endDate"}

DatesOk(in) == \A k \in DateKeys \cap DOMAIN in : CoerceDate(in[k]) # InvalidDate

(* the input as the handler receives it: the dates coerced *)
Parsed(in) == [k \in DOMAIN in |-> IF k \in DateKeys THEN CoerceDate(in[k]) ELSE in[k]]

(* the foreign key of a column holds: NULL, or the key of a row of the parent *)
References(v, parent) == v = Null \/ \E p \in parent : p.id = v

Enforced(rule) == rule \in store

----------------------------------------------------------------------------
(* createContract *)

createContractSchema(in) ==
    /\ Has(in, "title") /\ in.title # ""
    /\ Has(in, "finalText") /\ in.finalText # ""
    /\ DatesOk(in)

(* the row .values({...}) describes *)
NewContract(user, input, id, now) ==
    [id |-> id,
     userId |-> user,
     templateId |-> Col(input, "templateId"),
     title |-> input.title,
     partyAName |-> Col(input, "partyAName"),
     partyBName |-> Col(input, "partyBName"),
     effectiveDate |-> Col(input, "effectiveDate"),
     endDate |-> Col(input, "endDate"),
     governingLaw |-> Col(input, "governingLaw"),
     status |-> Col(input, "status"),
     finalText |-> input.finalText,
     notes |-> Col(input, "notes"),
     createdAt |-> now,
     updatedAt |-> now]

(* the database refuses the row: its key is taken, or its reference dangles *)
ContractRefused(contract) ==
    \/ \E c \in Contracts : c.id = contract.id
    \/ Enforced("fk") /\ ~References(contract.templateId, Templates)

ContractIdsFor(input, uuids) ==
    IF Has(input, "id") THEN {input.id} ELSE FreshIds(uuids, Contracts)

createContract(user, in, now, uuids) ==
    IF ~createContractSchema(in) THEN {Fail("BAD_REQUEST", <<>>)}
    ELSE IF ~requireUser(user) THEN {Fail("UNAUTHORIZED", <<>>)}
    ELSE LET input == Parsed(in)
             lookup == Has(input, "templateId") /\ Truthy(input.templateId)
             found == {t \in Templates : lookup /\ t.id = input.templateId}
             sel == IF lookup THEN <<"select ContractTemplates">> ELSE <<>>
         IN  IF lookup /\ TemplateDenied(found, user)
             THEN {Fail("NOT_FOUND", sel)}
             ELSE {LET contract == NewContract(user, input, id, now)
                   IN  IF ContractRefused(contract)
                       THEN Fail("STORE_ERROR", sel \o <<"insert Contracts">>)
                       ELSE Outcome("OK", contract, Templates, Contracts \cup {contract},
                                    Clauses, sel \o <<"insert Contracts">>)
                   : id \in ContractIdsFor(input, uuids)}

----------------------------------------------------------------------------
(* updateContract *)

updateContractSchema(in) == Has(in, "id") /\ DatesOk(in)

(* the contract lookup without its owner predicate *)
OwnContractsAnyOwner(id, user) == {c \in Contracts : c.id = id}

(* .where(and(eq(Contracts.id, id), eq(Contracts.userId, user.id))) *)
OwnContracts(id, user) == {c \in Contracts : c.id = id /\ c.userId = user}

updateContract(user, in, now) ==
    IF ~updateContractSchema(in) THEN {Fail("BAD_REQUEST", <<>>)}
    ELSE IF ~requireUser(user) THEN {Fail("UNAUTHORIZED", <<>>)}
    ELSE LET input == Parsed(in)
             existing == OwnContracts(input.id, user)
             lookup == Has(input, "templateId") /\ Truthy(input.templateId)
             found == {t \in Templates : lookup /\ t.id = input.templateId}
             sel == IF lookup THEN <<"select Contracts", "select ContractTemplates">>
                    ELSE <<"select Contracts">>
             updateData == UpdateData(Rest(input, {"id", "templateId"}))
                           @@ Only(input, {"templateId"})
         IN  IF existing = {} THEN {Fail("NOT_FOUND", <<"select Contracts">>)}
             ELSE IF lookup /\ TemplateDenied(found, user) THEN {Fail("NOT_FOUND", sel)}
             ELSE IF DOMAIN updateData = {}
             THEN {Outcome("OK", c, Templates, Contracts, Clauses, sel) : c \in existing}
             ELSE {LET contract == Merge(c, updateData @@ ("updatedAt" :> now))
                   IN  IF Enforced("fk") /\ ~References(contract.templateId, Templates)
                       THEN Fail("STORE_ERROR", sel \o <<"update Contracts">>)
                       ELSE Outcome("OK", contract, Templates,
                                    (Contracts \ OwnContracts(input.id, user)) \cup {contract},
                                    Clauses, sel \o <<"update Contracts">>)
                   : c \in existing}

----------------------------------------------------------------------------
(* listContracts *)

listContracts(user) ==
    IF ~requireUser(user) THEN {Fail("UNAUTHORIZED", <<>>)}
    ELSE {Outcome("OK", {c \in Contracts : c.userId = user}, Templates, Contracts, Clauses,
                  <<"select Contracts">>)}

----------------------------------------------------------------------------
(* deleteContract *)

deleteContractSchema(in) == Has(in, "id")

ClausesOf(contractId) == SelectSeq(Clauses, LAMBDA k : k.contractId = contractId)

deleteContract(user, in) ==
    IF ~deleteContractSchema(in) THEN {Fail("BAD_REQUEST", <<>>)}
    ELSE IF ~requireUser(user) THEN {Fail("UNAUTHORIZED", <<>>)}
    ELSE LET deleted == OwnContracts(in.id, user)
         IN  IF deleted = {} THEN {Fail("NOT_FOUND", <<"delete Contracts">>)}
             ELSE IF Enforced("fk") /\ ClausesOf(in.id) # <<>>
             THEN {Fail("STORE_ERROR", <<"delete Contracts">>)}
             ELSE {Outcome("OK", c, Templates, Contracts \ deleted, Clauses,
                           <<"delete Contracts">>) : c \in deleted}

----------------------------------------------------------------------------
(* saveClause *)

saveClauseSchema(in) ==
    /\ Has(in, "contractId")
    /\ Has(in, "orderIndex") /\ in.orderIndex > 0
    /\ Has(in, "body") /\ in.body # ""

(* the positions of the clauses a predicate on (id, contractId) selects *)
ClauseRows(id, contractIds) ==
    {i \in 1 .. Len(Clauses) : Clauses[i].id = id /\ Clauses[i].contractId \in contractIds}

AllContractIds == {k.contractId : k \in {Clauses[i] : i \in 1 .. Len(Clauses)}}

First(S) == CHOOSE i \in S : \A j \in S : i <= j

(* the columns saveClause writes: no id among them *)
BaseValues(in, now) ==
    [contractId |-> in.contractId,
     orderIndex |-> in.orderIndex,
     heading |-> Col(in, "heading"),
     body |-> in.body,
     clauseKey |-> Col(in, "clauseKey"),
     createdAt |-> now]

(* a column an insert gives no value and the schema no default is NULL *)
InsertedClause(values) == ("id" :> Null) @@ values

saveClause(user, in, now) ==
    IF ~saveClauseSchema(in) THEN {Fail("BAD_REQUEST", <<>>)}
    ELSE IF ~requireUser(user) THEN {Fail("UNAUTHORIZED", <<>>)}
    ELSE LET baseValues == BaseValues(in, now)
         IN  IF OwnContracts(in.contractId, user) = {}
             THEN {Fail("NOT_FOUND", <<"select Contracts">>)}
             ELSE IF Has(in, "id") /\ Truthy(in.id)
             THEN LET byId == ClauseRows(in.id, AllContractIds)
                      sel == <<"select Contracts", "select ContractClauses">>
                  IN  IF byId = {} \/ Clauses[First(byId)].contractId # in.contractId
                      THEN {Fail("NOT_FOUND", sel)}
                      ELSE {Outcome("OK", Merge(Clauses[First(byId)], baseValues),
                                    Templates, Contracts,
                                    [i \in 1 .. Len(Clauses) |->
                                        IF i \in byId THEN Merge(Clauses[i], baseValues)
                                        ELSE Clauses[i]],
                                    sel \o <<"update ContractClauses">>)}
             ELSE LET clause == InsertedClause(baseValues)
                  IN  {Outcome("OK", clause, Templates, Contracts, Append(Clauses, clause),
                               <<"select Contracts", "insert ContractClauses">>)}

----------------------------------------------------------------------------
(* deleteClause *)

deleteClauseSchema(in) == Has(in, "id") /\ Has(in, "contractId")

deleteClause(user, in) ==
    IF ~deleteClauseSchema(in) THEN {Fail("BAD_REQUEST", <<>>)}
    ELSE IF ~requireUser(user) THEN {Fail("UNAUTHORIZED", <<>>)}
    ELSE IF OwnContracts(in.contractId, user) = {}
    THEN {Fail("NOT_FOUND", <<"select Contracts">>)}
    ELSE LET deleted == ClauseRows(in.id, {in.contractId})
             stmts == <<"select Contracts", "delete ContractClauses">>
         IN  IF deleted = {} THEN {Fail("NOT_FOUND", stmts)}
             ELSE {Outcome("OK", Clauses[First(deleted)], Templates, Contracts,
                           SelectSeq(Clauses, LAMBDA k :
                               ~(k.id = in.id /\ k.contractId = in.contractId)),
                           stmts)}

----------------------------------------------------------------------------
(* getContractWithClauses *)

getContractWithClausesSchema(in) == Has(in, "id")

getContractWithClauses(user, in) ==
    IF ~getContractWithClausesSchema(in) THEN {Fail("BAD_REQUEST", <<>>)}
    ELSE IF ~requireUser(user) THEN {Fail("UNAUTHORIZED", <<>>)}
    ELSE LET found == OwnContracts(in.id, user)
         IN  IF found = {} THEN {Fail("NOT_FOUND", <<"select Contracts">>)}
             ELSE {Outcome("OK", [contract |-> c, clauses |-> ClausesOf(in.id)],
                           Templates, Contracts, Clauses,
                           <<"select Contracts", "select ContractClauses">>)
                   : c \in found}

----------------------------------------------------------------------------
(* A request runs to its end in one step: the tables become what the      *)
(* handler leaves, and the clock is where the handler read it.            *)

Commit(o, now) ==
    /\ Len(o.L) <= MaxClauses
    /\ Templates' = o.T
    /\ Contracts' = o.C
    /\ Clauses' = o.L
    /\ clock' = now
    /\ UNCHANGED <<store, reqs>>

TemplateUUIDs == {"t1"}

TemplateIds == {""} \cup TemplateUUIDs

ContractUUIDs == {"c1", "c2"}

ContractIds == ContractUUIDs

ClauseIds == {"", "k1"}

CreateTemplate(user, in, now) ==
    \E o \in createTemplate(user, in, now, TemplateUUIDs) : Commit(o, now)

UpdateTemplate(user, in, now) ==
    \E o \in updateTemplate(user, in, now) : Commit(o, now)

ListTemplates(user, now) ==
    \E o \in listTemplates(user) : Commit(o, now)

CreateContract(user, in, now) ==
    \E o \in createContract(user, in, now, ContractUUIDs) : Commit(o, now)

UpdateContract(user, in, now) ==
    \E o \in updateContract(user, in, now) : Commit(o, now)

ListContracts(user, now) ==
    \E o \in listContracts(user) : Commit(o, now)

DeleteContract(user, in, now) ==
    \E o \in deleteContract(user, in) : Commit(o, now)

SaveClause(user, in, now) ==
    \E o \in saveClause(user, in, now) : Commit(o, now)

DeleteClause(user, in, now) ==
    \E o \in deleteClause(user, in) : Commit(o, now)

GetContractWithClauses(user, in, now) ==
    \E o \in getContractWithClauses(user, in) : Commit(o, now)

----------------------------------------------------------------------------
(* Spec: every operation, by two users and an unauthenticated caller, on  *)
(* requests that vary the ids, the owner-deciding and the link-deciding   *)
(* fields and the validity of the required ones.  No handler reads a      *)
(* timestamp, so the requests all run at one reading of the clock here;   *)
(* SpecPatch lets time pass.                                              *)

CreateTemplateInputs ==
    Join(Join(Opt("id", TemplateIds), Opt("name", {"", "NDA"})),
         Join(Req("body", {"text"}), Opt("isSystem", BOOLEAN)))

UpdateTemplateInputs ==
    Join(Opt("id", TemplateIds), Opt("isSystem", {TRUE}))

CreateContractInputs ==
    Join(Join(Opt("id", ContractIds), Opt("templateId", TemplateIds)),
         Join(Opt("title", {"", "Lease"}), Req("finalText", {"text"})))

UpdateContractInputs ==
    Join(Opt("id", ContractIds), Opt("templateId", TemplateIds))

IdInputs == Opt("id", ContractIds)

SaveClauseInputs ==
    Join(Join(Opt("id", ClauseIds), Opt("contractId", ContractIds)),
         Join(Req("orderIndex", {0, 1}), Req("body", {"Pay"})))

DeleteClauseInputs ==
    Join(Opt("id", ClauseIds), Opt("contractId", ContractIds))

Init ==
    /\ Templates = {}
    /\ Contracts = {}
    /\ Clauses = <<>>
    /\ clock = 0
    /\ store \in SUBSET StoreRules
    /\ reqs = {}

Next ==
    \/ \E user \in Callers, in \in CreateTemplateInputs : CreateTemplate(user, in, clock)
    \/ \E user \in Callers, in \in UpdateTemplateInputs : UpdateTemplate(user, in, clock)
    \/ \E user \in Callers : ListTemplates(user, clock)
    \/ \E user \in Callers, in \in CreateContractInputs : CreateContract(user, in, clock)
    \/ \E user \in Callers, in \in UpdateContractInputs : UpdateContract(user, in, clock)
    \/ \E user \in Callers : ListContracts(user, clock)
    \/ \E user \in Callers, in \in IdInputs : DeleteContract(user, in, clock)
    \/ \E user \in Callers, in \in SaveClauseInputs : SaveClause(user, in, clock)
    \/ \E user \in Callers, in \in DeleteClauseInputs : DeleteClause(user, in, clock)
    \/ \E user \in Callers, in \in IdInputs : GetContractWithClauses(user, in, clock)

Spec == Init /\ [][Next]_vars

----------------------------------------------------------------------------
(* SpecPatch: the sparse updates.  One user creates and patches templates *)
(* and contracts while time passes; a patch carries any subset of two     *)
(* representative fields of rest (the loop over Object.entries(rest)      *)
(* treats every key alike), a date among them, and for a contract the     *)
(* templateId.                                                            *)

PatchUsers == {"u1"}

PatchTemplateIds == {"t1", "t2"}

PatchContractIds == {"c1"}

PatchCreateTemplateInputs ==
    Join(Join(Req("id", PatchTemplateIds), Req("name", {"NDA"})),
         Req("body", {"text"}))

PatchUpdateTemplateInputs ==
    Join(Req("id", PatchTemplateIds),
         Join(Opt("name", {"Lease"}), Opt("description", {"short"})))

PatchCreateContractInputs ==
    Join(Join(Req("id", PatchContractIds), Opt("templateId", {"t1"})),
         Join(Req("title", {"Lease"}), Req("finalText", {"text"})))

PatchUpdateContractInputs ==
    Join(Join(Req("id", PatchContractIds), Opt("templateId", {"", "t1"})),
         Join(Opt("title", {"Sale"}),
              Opt("effectiveDate", {"2024-05-01", "2024-05-01T00:00:00Z", "soon"})))

NextPatch ==
    \/ \E user \in PatchUsers, in \in PatchCreateTemplateInputs, now \in Now :
          CreateTemplate(user, in, now)
    \/ \E user \in PatchUsers, in \in PatchUpdateTemplateInputs, now \in Now :
          UpdateTemplate(user, in, now)
    \/ \E user \in PatchUsers, in \in PatchCreateContractInputs, now \in Now :
          CreateContract(user, in, now)
    \/ \E user \in PatchUsers, in \in PatchUpdateContractInputs, now \in Now :
          UpdateContract(user, in, now)

SpecPatch == Init /\ [][NextPatch]_vars

----------------------------------------------------------------------------
(* SpecRace: the handlers statement by statement.  Each await of a        *)
(* handler is a step of its own, and the steps of the requests in flight  *)
(* interleave.  A request that fails its schema or requireUser ends       *)
(* before its first statement, so the requests in flight are well-formed  *)
(* requests of authenticated users.  pc names the statement a request     *)
(* sends next.                                                            *)

MaxInFlight == 2

RaceTemplateIds == {"t1"}

RaceContractIds == {"c1"}

RaceInputs ==
    [createTemplate |->
        Join(Join(Req("id", RaceTemplateIds), Req("name", {"NDA"})),
             Req("body", {"text"})),
     updateTemplate |->
        Join(Req("id", RaceTemplateIds), Req("name", {"Lease"})),
     createContract |->
        Join(Join(Req("id", RaceContractIds), Opt("templateId", RaceTemplateIds)),
             Join(Req("title", {"Lease"}), Req("finalText", {"text"}))),
     updateContract |->
        Join(Req("id", RaceContractIds),
             Req("templateId", RaceTemplateIds) \cup Req("title", {"Sale"})),
     deleteContract |-> Req("id", RaceContractIds),
     saveClause |->
        Join(Join(Opt("id", {"k1"}), Req("contractId", RaceContractIds)),
             Join(Req("orderIndex", {1}), Req("body", {"Pay"}))),
     deleteClause |-> Join(Req("id", {"k1"}), Req("contractId", RaceContractIds))]

NeedsTemplate(in) == Has(in, "templateId") /\ Truthy(in.templateId)

(* the statement a handler sends first *)
FirstStatement(op, in) ==
    CASE op = "createTemplate" -> "write"
      [] op = "updateTemplate" -> "lookup"
      [] op = "createContract" -> IF NeedsTemplate(in) THEN "lookup" ELSE "write"
      [] op = "deleteContract" -> "write"
      [] OTHER -> "guard"

Request(user, op, in, pc) == [user |-> user, op |-> op, in |-> in, pc |-> pc]

(* the request r goes on to statement pc, or ends *)
Goto(r, pc) == reqs' = (reqs \ {r}) \cup {Request(r.user, r.op, r.in, pc)}

Done(r) == reqs' = reqs \ {r}

RaceStart ==
    /\ Cardinality(reqs) < MaxInFlight
    /\ \E user \in Users, op \in DOMAIN RaceInputs : \E in \in RaceInputs[op] :
          reqs' = reqs \cup {Request(user, op, in, FirstStatement(op, in))}
    /\ UNCHANGED <<Templates, Contracts, Clauses, clock, store>>

(* a request that is one statement: the handler as a whole *)
RaceCreateTemplate(r) ==
    /\ r.op = "createTemplate" /\ r.pc = "write"
    /\ \E o \in createTemplate(r.user, r.in, clock, TemplateUUIDs) :
          /\ Templates' = o.T
          /\ UNCHANGED <<Contracts, Clauses, clock, store>>
    /\ Done(r)

RaceDeleteContract(r) ==
    /\ r.op = "deleteContract" /\ r.pc = "write"
    /\ \E o \in deleteContract(r.user, r.in) :
          /\ Contracts' = o.C
          /\ UNCHANGED <<Templates, Clauses, clock, store>>
    /\ Done(r)

(* the select of a template by id, and the guard on what it returned *)
RaceTemplateLookup(r, id, next) ==
    /\ IF TemplateDenied({t \in Templates : t.id = id}, r.user) THEN Done(r) ELSE next
    /\ UNCHANGED <<Templates, Contracts, Clauses, clock, store>>

(* .update(ContractTemplates).set(...).where(eq(ContractTemplates.id, id)) *)
TemplateWriteRows(id, user) == {t \in Templates : t.id = id}

RaceUpdateTemplate(r) ==
    /\ r.op = "updateTemplate"
    /\ \/ /\ r.pc = "lookup"
          /\ RaceTemplateLookup(r, r.in.id,
                IF DOMAIN UpdateData(Rest(r.in, {"id"})) = {} THEN Done(r)
                ELSE Goto(r, "write"))
       \/ /\ r.pc = "write"
          /\ LET rows == TemplateWriteRows(r.in.id, r.user)
                 data == UpdateData(Rest(r.in, {"id"})) @@ ("updatedAt" :> clock)
             IN  Templates' = (Templates \ rows) \cup {Merge(t, data) : t \in rows}
          /\ Done(r)
          /\ UNCHANGED <<Contracts, Clauses, clock, store>>

RaceCreateContract(r) ==
    /\ r.op = "createContract"
    /\ \/ /\ r.pc = "lookup"
          /\ RaceTemplateLookup(r, r.in.templateId, Goto(r, "write"))
       \/ /\ r.pc = "write"
          /\ \E id \in ContractIdsFor(r.in, ContractUUIDs) :
                LET contract == NewContract(r.user, Parsed(r.in), id, clock)
                IN  Contracts' = IF ContractRefused(contract) THEN Contracts
                                 ELSE Contracts \cup {contract}
          /\ Done(r)
          /\ UNCHANGED <<Templates, Clauses, clock, store>>

(* the contract write without its owner predicate *)
ContractWriteRowsById(id, user) == {c \in Contracts : c.id = id}

(* .update(Contracts).set(...).where(and(eq(Contracts.id, id),            *)
(* eq(Contracts.userId, user.id)))                                        *)
ContractWriteRows(id, user) == {c \in Contracts : c.id = id /\ c.userId = user}

RaceUpdateContract(r) ==
    /\ r.op = "updateContract"
    /\ LET data == UpdateData(Rest(r.in, {"id", "templateId"})) @@ Only(r.in, {"templateId"})
           afterGuards == IF DOMAIN data = {} THEN Done(r) ELSE Goto(r, "write")
       IN  \/ /\ r.pc = "guard"
              /\ IF OwnContracts(r.in.id, r.user) = {} THEN Done(r)
                 ELSE IF NeedsTemplate(r.in) THEN Goto(r, "lookup")
                 ELSE afterGuards
              /\ UNCHANGED <<Templates, Contracts, Clauses, clock, store>>
           \/ /\ r.pc = "lookup"
              /\ RaceTemplateLookup(r, r.in.templateId, afterGuards)
           \/ /\ r.pc = "write"
              /\ LET rows == ContractWriteRows(r.in.id, r.user)
                     new == {Merge(c, data @@ ("updatedAt" :> clock)) : c \in rows}
                 IN  Contracts' =
                         IF Enforced("fk")
                            /\ \E c \in new : ~References(c.templateId, Templates)
                         THEN Contracts
                         ELSE (Contracts \ rows) \cup new
              /\ Done(r)
              /\ UNCHANGED <<Templates, Clauses, clock, store>>

RaceSaveClause(r) ==
    /\ r.op = "saveClause"
    /\ LET byId == IF Has(r.in, "id") THEN ClauseRows(r.in.id, AllContractIds) ELSE {}
           baseValues == BaseValues(r.in, clock)
       IN  \/ /\ r.pc = "guard"
              /\ IF OwnContracts(r.in.contractId, r.user) = {} THEN Done(r)
                 ELSE IF Has(r.in, "id") /\ Truthy(r.in.id) THEN Goto(r, "lookup")
                 ELSE Goto(r, "write")
              /\ UNCHANGED <<Templates, Contracts, Clauses, clock, store>>
           \/ /\ r.pc = "lookup"
              /\ IF byId = {} \/ Clauses[First(byId)].contractId # r.in.contractId
                 THEN Done(r) ELSE Goto(r, "update")
              /\ UNCHANGED <<Templates, Contracts, Clauses, clock, store>>
           \/ /\ r.pc = "update"
              /\ Clauses' =
                    IF Enforced("fk") /\ byId # {}
                       /\ ~References(r.in.contractId, Contracts)
                    THEN Clauses
                    ELSE [i \in 1 .. Len(Clauses) |->
                            IF i \in byId THEN Merge(Clauses[i], baseValues)
                            ELSE Clauses[i]]
              /\ Done(r)
              /\ UNCHANGED <<Templates, Contracts, clock, store>>
           \/ /\ r.pc = "write"
              /\ Len(Clauses) < MaxClauses
              /\ Clauses' =
                    IF Enforced("fk") /\ ~References(r.in.contractId, Contracts)
                    THEN Clauses
                    ELSE Append(Clauses, InsertedClause(baseValues))
              /\ Done(r)
              /\ UNCHANGED <<Templates, Contracts, clock, store>>

RaceDeleteClause(r) ==
    /\ r.op = "deleteClause"
    /\ \/ /\ r.pc = "guard"
          /\ IF OwnContracts(r.in.contractId, r.user) = {} THEN Done(r)
             ELSE Goto(r, "write")
          /\ UNCHANGED <<Templates, Contracts, Clauses, clock, store>>
       \/ /\ r.pc = "write"
          /\ Clauses' = SelectSeq(Clauses, LAMBDA k :
                            ~(k.id = r.in.id /\ k.contractId = r.in.contractId))
          /\ Done(r)
          /\ UNCHANGED <<Templates, Contracts, clock, store>>

InitRace ==
    /\ Templates = {}
    /\ Contracts = {}
    /\ Clauses = <<>>
    /\ clock = 0
    /\ store \in SUBSET StoreRules
    /\ reqs = {}

NextRace ==
    \/ RaceStart
    \/ \E r \in reqs : RaceCreateTemplate(r)
    \/ \E r \in reqs : RaceUpdateTemplate(r)
    \/ \E r \in reqs : RaceCreateContract(r)
    \/ \E r \in reqs : RaceUpdateContract(r)
    \/ \E r \in reqs : RaceDeleteContract(r)
    \/ \E r \in reqs : RaceSaveClause(r)
    \/ \E r \in reqs : RaceDeleteClause(r)

SpecRace == InitRace /\ [][NextRace]_vars

----------------------------------------------------------------------------
(* Properties of Spec.  A property of an operation is stated of every     *)
(* outcome the operation has in a reachable state, for every request of   *)
(* the sets above.                                                        *)

Unchanged(o) == o.T = Templates /\ o.C = Contracts /\ o.L = Clauses

ForeignContract(id, user) == \E c \in Contracts : c.id = id /\ c.userId # user

MissingContract(id) == \A c \in Contracts : c.id # id

ForeignTemplate(id, user) ==
    \E t \in Templates : t.id = id /\ t.userId # Null /\ t.userId # user

MissingTemplate(id) == \A t \in Templates : t.id # id

(* every outcome is NOT_FOUND with the tables as they were *)
Denied(outs) == outs # {} /\ \A o \in outs : o.code = "NOT_FOUND" /\ Unchanged(o)

(* C1: a well-formed request of an authenticated caller U that is aimed   *)
(* at a contract of another owner (updateContract, deleteContract,        *)
(* saveClause, deleteClause, getContractWithClauses) or at a template     *)
(* whose owner is non-null and not U (updateTemplate) fails NOT_FOUND, as *)
(* it does for an id no row carries, and leaves the three tables as they  *)
(* were.                                                                  *)
C1_CrossOwnerDenied ==
    \A user \in Users :
        /\ \A in \in UpdateContractInputs :
              updateContractSchema(in)
              /\ (ForeignContract(in.id, user) \/ MissingContract(in.id))
              => Denied(updateContract(user, in, clock))
        /\ \A in \in IdInputs :
              deleteContractSchema(in)
              /\ (ForeignContract(in.id, user) \/ MissingContract(in.id))
              => Denied(deleteContract(user, in))
        /\ \A in \in IdInputs :
              getContractWithClausesSchema(in)
              /\ (ForeignContract(in.id, user) \/ MissingContract(in.id))
              => Denied(getContractWithClauses(user, in))
        /\ \A in \in SaveClauseInputs :
              saveClauseSchema(in)
              /\ (ForeignContract(in.contractId, user) \/ MissingContract(in.contractId))
              => Denied(saveClause(user, in, clock))
        /\ \A in \in DeleteClauseInputs :
              deleteClauseSchema(in)
              /\ (ForeignContract(in.contractId, user) \/ MissingContract(in.contractId))
              => Denied(deleteClause(user, in))
        /\ \A in \in UpdateTemplateInputs :
              updateTemplateSchema(in)
              /\ (ForeignTemplate(in.id, user) \/ MissingTemplate(in.id))
              => Denied(updateTemplate(user, in, clock))

(* u2 owns a contract with a clause and a template, and u1's requests on  *)
(* them are answered NOT_FOUND                                            *)
C1_Witness ==
    \E c \in Contracts, t \in Templates :
        /\ c.userId = "u2" /\ ClausesOf(c.id) # <<>> /\ t.userId = "u2"
        /\ \E in \in SaveClauseInputs :
              /\ saveClauseSchema(in) /\ in.contractId = c.id
              /\ \E o \in saveClause("u1", in, clock) : o.code = "NOT_FOUND"
        /\ \E o \in deleteContract("u1", [id |-> c.id]) : o.code = "NOT_FOUND"
        /\ \E o \in updateTemplate("u1", [id |-> t.id, isSystem |-> TRUE], clock) :
              o.code = "NOT_FOUND"

(* C2: listTemplates(U) returns rows of the table only; a template whose  *)
(* owner is null is in every user's list, a template owned by V is in V's *)
(* list and in no other user's.                                           *)
C2_ListTemplatesVisibility ==
    \A user \in Users :
        LET outs == listTemplates(user)
        IN  /\ outs # {}
            /\ \A o \in outs :
                  /\ o.code = "OK" /\ Unchanged(o)
                  /\ o.out \subseteq Templates
                  /\ \A t \in Templates :
                        /\ t.userId = Null => t \in o.out
                        /\ t.userId \in Users => (t \in o.out <=> t.userId = user)
                        /\ t.userId \in Users \cup {Null}

(* an ownerless template and one of u2 exist: u1 is shown the first only, *)
(* u2 both                                                                *)
C2_Witness ==
    \E a \in Templates, b \in Templates :
        /\ a.userId = Null /\ b.userId = "u2"
        /\ \E o \in listTemplates("u1") : a \in o.out /\ b \notin o.out
        /\ \E o \in listTemplates("u2") : a \in o.out /\ b \in o.out

(* P(schema holds, outcomes) of every request of the model a caller can  *)
(* send, operation by operation.                                          *)
EveryRequest(user, P(_, _)) ==
    /\ \A in \in CreateTemplateInputs :
          P(createTemplateSchema(in), createTemplate(user, in, clock, TemplateUUIDs))
    /\ \A in \in UpdateTemplateInputs :
          P(updateTemplateSchema(in), updateTemplate(user, in, clock))
    /\ P(TRUE, listTemplates(user))
    /\ \A in \in CreateContractInputs :
          P(createContractSchema(in), createContract(user, in, clock, ContractUUIDs))
    /\ \A in \in UpdateContractInputs :
          P(updateContractSchema(in), updateContract(user, in, clock))
    /\ P(TRUE, listContracts(user))
    /\ \A in \in IdInputs : P(deleteContractSchema(in), deleteContract(user, in))
    /\ \A in \in SaveClauseInputs : P(saveClauseSchema(in), saveClause(user, in, clock))
    /\ \A in \in DeleteClauseInputs : P(deleteClauseSchema(in), deleteClause(user, in))
    /\ \A in \in IdInputs :
          P(getContractWithClausesSchema(in), getContractWithClauses(user, in))

(* C3 as stated: without an authenticated principal every request, well-  *)
(* formed or not, ends UNAUTHORIZED with no statement sent to the store   *)
(* and no table changed.                                                  *)
C3_UnauthorizedFirst ==
    EveryRequest(NoUser, LAMBDA valid, outs :
        /\ outs # {}
        /\ \A o \in outs : o.code = "UNAUTHORIZED" /\ o.stmts = <<>> /\ Unchanged(o))

(* C3 as amended: without an authenticated principal a request that       *)
(* passes its schema ends UNAUTHORIZED and one that does not ends         *)
(* BAD_REQUEST (the schema is checked before the handler runs); either    *)
(* way no statement is sent to the store and no table changes, so the     *)
(* answer is never NOT_FOUND, whatever row the request names.             *)
C3_UnauthorizedAfterSchema ==
    EveryRequest(NoUser, LAMBDA valid, outs :
        /\ outs # {}
        /\ \A o \in outs :
              /\ o.code = (IF valid THEN "UNAUTHORIZED" ELSE "BAD_REQUEST")
              /\ o.stmts = <<>>
              /\ Unchanged(o))

(* a contract exists: the unauthenticated delete of it and of an id no    *)
(* row carries end UNAUTHORIZED, a saveClause with a bad orderIndex ends  *)
(* BAD_REQUEST                                                            *)
C3_Witness ==
    /\ \E c \in Contracts : \E o \in deleteContract(NoUser, [id |-> c.id]) :
          o.code = "UNAUTHORIZED"
    /\ \E id \in ContractIds :
          /\ MissingContract(id)
          /\ \E o \in deleteContract(NoUser, [id |-> id]) : o.code = "UNAUTHORIZED"
    /\ \E in \in SaveClauseInputs :
          /\ in.orderIndex = 0
          /\ \E o \in saveClause(NoUser, in, clock) : o.code = "BAD_REQUEST"

BadTemplateRef(in, user) ==
    /\ Has(in, "templateId") /\ in.templateId # ""
    /\ (MissingTemplate(in.templateId) \/ ForeignTemplate(in.templateId, user))

(* C4: a well-formed createContract or updateContract of U whose non-     *)
(* empty templateId names no template, or one whose owner is non-null and *)
(* not U, fails NOT_FOUND and leaves the tables as they were; and every   *)
(* contract with a non-empty templateId references an existing template   *)
(* that is ownerless or owned by the contract's owner.                    *)
C4_TemplateReferenceValid ==
    /\ \A user \in Users :
          /\ \A in \in CreateContractInputs :
                createContractSchema(in) /\ BadTemplateRef(in, user)
                => Denied(createContract(user, in, clock, ContractUUIDs))
          /\ \A in \in UpdateContractInputs :
                updateContractSchema(in) /\ BadTemplateRef(in, user)
                => Denied(updateContract(user, in, clock))
    /\ \A c \in Contracts :
          c.templateId \notin {Null, ""}
          => \E t \in Templates :
                t.id = c.templateId /\ (t.userId = Null \/ t.userId = c.userId)

(* u1 has a contract made from u1's own template, and u2's createContract *)
(* and updateContract naming that template are answered NOT_FOUND         *)
C4_Witness ==
    \E c \in Contracts, t \in Templates, d \in Contracts :
        /\ c.userId = "u1" /\ t.userId = "u1" /\ c.templateId = t.id /\ t.id # ""
        /\ d.userId = "u2"
        /\ \E o \in createContract("u2", [title |-> "Lease", finalText |-> "text",
                                         templateId |-> t.id], clock, ContractUUIDs) :
              o.code = "NOT_FOUND"
        /\ \E o \in updateContract("u2", [id |-> d.id, templateId |-> t.id], clock) :
              o.code = "NOT_FOUND"

(* C5: saveClause without an id, by the owner of the contract, inserts    *)
(* one row and returns it with a store-generated id: an id that is not    *)
(* NULL and that no other clause carries, so that a following saveClause  *)
(* with that id replaces this row.                                        *)
C5_ClauseUpsertById ==
    \A user \in Users : \A in \in SaveClauseInputs :
        saveClauseSchema(in) /\ ~Has(in, "id") /\ OwnContracts(in.contractId, user) # {}
        => \A o \in saveClause(user, in, clock) :
              /\ o.code = "OK"
              /\ Len(o.L) = Len(Clauses) + 1
              /\ o.out.id # Null
              /\ \A i \in 1 .. Len(Clauses) : Clauses[i].id # o.out.id

(* C8: updateContract by the owner with templateId present and empty      *)
(* succeeds without a template lookup, writes the row (updatedAt          *)
(* refreshed) and leaves its templateId NULL, the value a contract        *)
(* created without a templateId has.                                      *)
C8_EmptyTemplateIdClearsLink ==
    \A user \in Users : \A in \in UpdateContractInputs :
        updateContractSchema(in) /\ Has(in, "templateId") /\ in.templateId = ""
        /\ OwnContracts(in.id, user) # {}
        => \A o \in updateContract(user, in, clock) :
              /\ o.code = "OK"
              /\ \A i \in 1 .. Len(o.stmts) : o.stmts[i] # "select ContractTemplates"
              /\ o.stmts[Len(o.stmts)] = "update Contracts"
              /\ o.out.updatedAt = clock
              /\ o.out.templateId = Null

(* C9: every clause's contractId names an existing contract (so that no   *)
(* clause saved under one owner's contract is ever reached through a      *)
(* contract of another owner).                                            *)
C9_ClausesHaveContract ==
    \A i \in 1 .. Len(Clauses) : \E c \in Contracts : c.id = Clauses[i].contractId

(* C10: a template's isSystem flag is true exactly when its owner is null *)
C10_SystemIffOwnerless ==
    \A t \in Templates : t.isSystem <=> t.userId = Null

----------------------------------------------------------------------------
(* Properties of SpecPatch. *)

NoWrite(stmts) ==
    \A i \in 1 .. Len(stmts) :
        stmts[i] \in {"select ContractTemplates", "select Contracts", "select ContractClauses"}

(* the row after a patch: the fields present take the input's values,    *)
(* updatedAt the time of the write, every other field keeps its value    *)
Patched(row, new, input, present, now) ==
    \A k \in DOMAIN row :
        new[k] = (IF k \in present THEN input[k]
                  ELSE IF k = "updatedAt" THEN now ELSE row[k])

(* C6: updateTemplate or updateContract on a row the caller may update:  *)
(* with no field beyond id in the input it sends no write and returns    *)
(* the row as it was, updatedAt included; with a field present, a write  *)
(* changes the fields present and updatedAt only, and leaves every other *)
(* field of the row and every other row as they were.                    *)
C6_SparseUpdate ==
    \A user \in PatchUsers, now \in Now :
        /\ \A in \in PatchUpdateTemplateInputs, t \in Templates :
              updateTemplateSchema(in) /\ t.id = in.id
              /\ (t.userId = Null \/ t.userId = user)
              => LET present == DOMAIN in \ {"id"}
                     outs == updateTemplate(user, in, now)
                 IN  /\ outs # {}
                     /\ \A o \in outs :
                           IF present = {}
                           THEN /\ o.code = "OK" /\ o.out = t
                                /\ Unchanged(o) /\ NoWrite(o.stmts)
                           ELSE /\ o.code = "OK"
                                /\ Patched(t, o.out, in, present, now)
                                /\ o.T = (Templates \ {t}) \cup {o.out}
                                /\ o.C = Contracts /\ o.L = Clauses
        /\ \A in \in PatchUpdateContractInputs, c \in Contracts :
              updateContractSchema(in) /\ c.id = in.id /\ c.userId = user
              => LET present == DOMAIN in \ {"id"}
                     outs == updateContract(user, in, now)
                 IN  /\ outs # {}
                     /\ \A o \in outs :
                           IF present = {}
                           THEN /\ o.code = "OK" /\ o.out = c
                                /\ Unchanged(o) /\ NoWrite(o.stmts)
                           ELSE IF o.code = "OK"
                           THEN /\ Patched(c, o.out, Parsed(in), present, now)
                                /\ o.C = (Contracts \ {c}) \cup {o.out}
                                /\ o.T = Templates /\ o.L = Clauses
                           ELSE Unchanged(o)

(* two templates and a contract that were written before the clock moved: *)
(* the empty patch returns the old updatedAt, a one-field patch the new   *)
C6_Witness ==
    /\ clock = 1
    /\ \E t \in Templates, s \in Templates, c \in Contracts :
          /\ t.id # s.id /\ t.updatedAt = 0 /\ c.updatedAt = 0
          /\ t.description = "short" /\ c.effectiveDate # Null
          /\ \E o \in updateTemplate("u1", [id |-> t.id], clock) :
                o.code = "OK" /\ o.out.updatedAt = 0
          /\ \E o \in updateContract("u1", [id |-> c.id], clock) :
                o.code = "OK" /\ o.out.updatedAt = 0
          /\ \E o \in updateTemplate("u1", [id |-> t.id, name |-> "Lease"], clock) :
                o.code = "OK" /\ o.out.updatedAt = 1 /\ o.out.description = "short"
          /\ \E o \in updateContract("u1", [id |-> c.id, title |-> "Sale"], clock) :
                o.code = "OK" /\ o.out.updatedAt = 1 /\ o.out.effectiveDate # Null

----------------------------------------------------------------------------
(* Properties of SpecRace.  What a request in flight is about to write is *)
(* read off the state in which it writes.                                 *)

(* the contracts the next statement of r inserts, updates or deletes *)
ContractsWritten(r) ==
    IF r.pc # "write" THEN {}
    ELSE CASE r.op = "createContract" ->
                {NewContract(r.user, Parsed(r.in), id, clock) :
                    id \in ContractIdsFor(r.in, ContractUUIDs)}
           [] r.op = "updateContract" -> ContractWriteRows(r.in.id, r.user)
           [] r.op = "deleteContract" -> OwnContracts(r.in.id, r.user)
           [] OTHER -> {}

(* the templates the next statement of r updates *)
TemplatesWritten(r) ==
    IF r.op = "updateTemplate" /\ r.pc = "write"
    THEN TemplateWriteRows(r.in.id, r.user) ELSE {}

(* the contracts that are parents of the clauses the next statement of r  *)
(* inserts, updates or deletes                                            *)
ClauseParentsWritten(r) ==
    LET ids == CASE r.op = "saveClause" /\ r.pc = "write" -> {r.in.contractId}
                 [] r.op = "saveClause" /\ r.pc = "update" ->
                        IF ClauseRows(r.in.id, AllContractIds) = {} THEN {}
                        ELSE {r.in.contractId}
                           \cup {Clauses[i].contractId : i \in ClauseRows(r.in.id, AllContractIds)}
                 [] r.op = "deleteClause" /\ r.pc = "write" ->
                        IF ClauseRows(r.in.id, {r.in.contractId}) = {} THEN {}
                        ELSE {r.in.contractId}
                 [] OTHER -> {}
    IN  {c \in Contracts : c.id \in ids}

ContractsIsolated(r) == \A c \in ContractsWritten(r) : c.userId = r.user

TemplatesIsolated(r) ==
    \A t \in TemplatesWritten(r) : t.userId = Null \/ t.userId = r.user

(* C7 as stated: under any interleaving of the statements, no request of  *)
(* U writes a contract of another owner, a clause whose parent contract   *)
(* is owned by another caller when the clause is written, or a template   *)
(* whose owner is non-null and not U.                                     *)
C7_IsolationUnderInterleaving ==
    \A r \in reqs :
        /\ ContractsIsolated(r)
        /\ TemplatesIsolated(r)
        /\ \A c \in ClauseParentsWritten(r) : c.userId = r.user

(* C7 as amended: under any interleaving of the statements, no request of *)
(* U writes a contract of another owner or a template whose owner is      *)
(* non-null and not U.                                                    *)
C7_ContractAndTemplateIsolation ==
    \A r \in reqs : ContractsIsolated(r) /\ TemplatesIsolated(r)

(* u1's updateContract passed its guard, and by the time of its write the *)
(* contract id belongs to a contract of u2; u2's updateTemplate of its    *)
(* own template is at its write as well                                   *)
C7_Witness ==
    /\ \E r \in reqs :
          /\ r.op = "updateContract" /\ r.pc = "write" /\ r.user = "u1"
          /\ \E c \in Contracts : c.id = r.in.id /\ c.userId = "u2"
    /\ \E r \in reqs :
          /\ r.op = "updateTemplate" /\ r.pc = "write" /\ r.user = "u2"
          /\ TemplatesWritten(r) # {}

====
